---- MODULE Spec2Model ----
(***************************************************************************)
(* Shared focus / traversal state of the knowledge-tree viewer:            *)
(* FocusProvider (contexts/FocusContext.tsx), the 2D node click handler    *)
(* (KnowledgeNodeComponent) and the 3D scene (GraphSceneWithDrawer) with   *)
(* its focus-sync and camera-animation effects.                            *)
(*                                                                         *)
(* A KnowledgeNode tree is encoded as a record [n, parent, label]: nodes   *)
(* are 1..n, node 1 is the root, parent[i] < i, and the children of a node *)
(* are ordered by ascending index (the order of the `children` array).     *)
(***************************************************************************)
EXTENDS Integers, Sequences, FiniteSets, Bags, TLC

\* ---------------------------------------------------------------- bounds
MaxNodes == 3         \* size of the tree handed to the views
MaxOrderNodes == 2    \* size of the other trees handed to initialize*Traversal
MaxEngineNodes == 4   \* size of the trees the traversal engine is applied to
MaxRun == 4           \* cap of the consecutive-step counter
MaxAnimations == 2    \* camera animations started in one run of the scene
TicksPerAnimation == 4  \* time resolution: clock ticks per animation duration
MaxLayoutNodes == 11  \* size of the trees handed to the 3D layout
MaxSiblings == 4      \* size of the sibling groups placed around one parent
MaxRingNodes == 5     \* size of the trees handed to the fixed-radius 3D layout
MaxPassNodes == 4     \* number of 2D nodes the collision pass is applied to
MaxOutputNodes == 4   \* size of the trees whose laid-out nodes and edges are compared
GridPerUnit == 4      \* layout coordinates are multiples of 1/GridPerUnit

\* node labels: two suffice for equal, distinct and stale labels in the
\* focus machine; the traversal engine is run on four
RootLabel == "Root"
Labels == {RootLabel, "X"}
EngineLabels == {RootLabel, "A", "B", "A1"}

\* JavaScript null for a label / a view tag, and for the 3D focus id
Null == "null"
NoId == -1

\* ------------------------------------------------------------ tree model
ParentVectors(n) ==
    {p \in [1..n -> 0..(n - 1)] : p[1] = 0 /\ \A i \in 2..n : p[i] >= 1 /\ p[i] < i}

TreesOfSize(n, L) ==
    {[n |-> n, parent |-> p, label |-> l] : p \in ParentVectors(n), l \in [1..n -> L]}

\* Labels are only ever compared for equality, so the views' tree is
\* taken with its root labelled RootLabel.
Trees == {t \in UNION {TreesOfSize(n, Labels) : n \in 1..MaxNodes} : t.label[1] = RootLabel}
OrderTrees == UNION {TreesOfSize(n, Labels) : n \in 1..MaxOrderNodes}
EngineTrees == UNION {TreesOfSize(n, EngineLabels) : n \in 1..MaxEngineNodes}

\* node.children (absent children behave as the empty array)
Children(t, i) == SelectSeq([k \in 1..t.n |-> k], LAMBDA j : t.parent[j] = i)

\* depth of node i (the `depth` argument of the layout's traverse)
RECURSIVE Depth(_, _)
Depth(t, i) == IF i = 1 THEN 0 ELSE 1 + Depth(t, t.parent[i])

\* leaves the order as it is
ReverseKeep(s) == s

Reverse(s) == [k \in 1..Len(s) |-> s[Len(s) + 1 - k]]

MaxOf(S) == CHOOSE m \in S : \A x \in S : x <= m

\* ------------------------------------------------------ traversal engine
\* the children are put at the front of the queue instead of its end
RECURSIVE BfsLoopUnshift(_, _, _)
BfsLoopUnshift(t, queue, result) ==
    IF queue = <<>> THEN result
    ELSE LET node == Head(queue)
         IN  BfsLoopUnshift(t, Children(t, node) \o Tail(queue), Append(result, t.label[node]))

RECURSIVE BfsLoop(_, _, _)
BfsLoop(t, queue, result) ==
    IF queue = <<>> THEN result
    ELSE LET node == Head(queue)
         IN  BfsLoop(t, Tail(queue) \o Children(t, node), Append(result, t.label[node]))

createBfsTraversal(t) == BfsLoop(t, <<1>>, <<>>)

\* the child loop stops at i > 0 and never pushes children[0]
RECURSIVE DfsLoopOffByOne(_, _, _)
DfsLoopOffByOne(t, stack, result) ==
    IF stack = <<>> THEN result
    ELSE LET node == stack[Len(stack)]
             rest == SubSeq(stack, 1, Len(stack) - 1)
             kids == Children(t, node)
         IN  DfsLoopOffByOne(t, rest \o Reverse(IF kids = <<>> THEN <<>> ELSE Tail(kids)),
                             Append(result, t.label[node]))

\* takes the next node from the bottom of the stack (shift instead of pop)
RECURSIVE DfsLoopShift(_, _, _)
DfsLoopShift(t, stack, result) ==
    IF stack = <<>> THEN result
    ELSE LET node == Head(stack)
         IN  DfsLoopShift(t, Tail(stack) \o Reverse(Children(t, node)), Append(result, t.label[node]))

RECURSIVE DfsLoop(_, _, _)
DfsLoop(t, stack, result) ==
    IF stack = <<>> THEN result
    ELSE LET node == stack[Len(stack)]
             rest == SubSeq(stack, 1, Len(stack) - 1)
         IN  DfsLoop(t, rest \o Reverse(Children(t, node)), Append(result, t.label[node]))

createDfsTraversal(t) == DfsLoop(t, <<1>>, <<>>)

\* The same tree with every node named by its own index: the order of a
\* traversal of it is the order in which the node objects are visited.
ByIdentity(t) == [t EXCEPT !.label = [i \in 1..t.n |-> i]]

BfsOf == [t \in Trees \cup OrderTrees |-> createBfsTraversal(t)]
DfsOf == [t \in Trees \cup OrderTrees |-> createDfsTraversal(t)]

\* initialize*Traversal depends on its argument only through the computed
\* order, so one root per distinct order is enumerated as input.
BfsRoots == {CHOOSE t \in OrderTrees : BfsOf[t] = o : o \in {BfsOf[t] : t \in OrderTrees}}
DfsRoots == {CHOOSE t \in OrderTrees : DfsOf[t] = o : o \in {DfsOf[t] : t \in OrderTrees}}

\* ------------------------------------------------------------- 2D layout
\* convertTreeToReactFlow: processNode takes its id from the nodeId counter
\* (`node-<k>` is modelled as k), lays out the children, then pushes the
\* node with data.label = node.node.  Only id and label are kept here.
RECURSIVE processNode(_, _, _)
RECURSIVE processChildren(_, _, _)
processChildren(t, kids, acc) ==
    IF kids = <<>> THEN acc
    ELSE LET r == processNode(t, Head(kids), acc.next)
         IN  processChildren(t, Tail(kids), [nodes |-> acc.nodes \o r.nodes, next |-> r.next])

processNode(t, i, nodeId) ==
    LET sub == processChildren(t, Children(t, i), [nodes |-> <<>>, next |-> nodeId + 1])
    IN  [nodes |-> Append(sub.nodes, [id |-> nodeId, label |-> t.label[i]]),
         next |-> sub.next]

convertTreeToReactFlow(t) == processNode(t, 1, 0).nodes

FlowOf == [t \in Trees |-> convertTreeToReactFlow(t)]

\* ------------------------------------------------------------- 3D layout
\* build3DLayout: the recursive traverse() pushes one node per tree node in
\* pre-order and numbers them with idCounter (id `n3-<k>` is modelled as k).
RECURSIVE LayoutVisit(_, _)
LayoutVisit(t, todo) ==
    IF todo = <<>> THEN <<>>
    ELSE <<Head(todo)>> \o LayoutVisit(t, Children(t, Head(todo)) \o Tail(todo))

build3DLayout(t) ==
    LET visit == LayoutVisit(t, <<1>>)
    IN  [k \in 1..Len(visit) |-> [id |-> k - 1, label |-> t.label[visit[k]]]]

LayoutOf == [t \in Trees |-> build3DLayout(t)]

\* labelToId.get(label): Map.set overwrites, so the last node carrying the
\* label wins; NoId stands for `undefined`.
labelToIdGet(ns, label) ==
    LET hits == {k \in 1..Len(ns) : ns[k].label = label}
    IN  IF hits = {} THEN NoId ELSE ns[MaxOf(hits)].id

\* idToNode.get(id).label, and data.label of the 2D node with that id
idToLabel(ns, id) ==
    LET hits == {k \in 1..Len(ns) : ns[k].id = id}
    IN  ns[CHOOSE k \in hits : TRUE].label

NodeIds(ns) == {ns[k].id : k \in 1..Len(ns)}

\* ----------------------------------------------------------------- state
VARIABLES
    data,              \* the tree handed to both views (prop `data`)
    syncGated,         \* scene variant: focus-sync reacts to 'graph2d' only
    focusedNodeLabel,  \* FocusProvider state
    focusSource,       \* FocusProvider state
    traversal,         \* bfsTraversal / dfsTraversal
    currentIndex,      \* currentBfsIndex / currentDfsIndex
    focusId,           \* local state of the 3D scene
    animTarget,        \* node of the most recently started animate() loop
    animLog,           \* node ids whose animate() loop the last event started
    lastEvent,         \* the handler that ran last and the node it was given
    before,            \* <<focusedNodeLabel, focusSource>> before the last click
    run,               \* consecutive focusNextNode calls since initialisation
    tRoot, tBfs, tDfs, tPhase,  \* traversal engine applied to one input
    tBfsNodes, tDfsNodes,       \* the node objects behind tBfs and tDfs
    camPos,            \* camera.position (z), in units of 1/Unit
    camTarget,         \* controls.target (z), in units of 1/Unit
    anims,             \* the animate() loops started so far, in registration order
    lNodes,            \* build3DLayout: the `nodes` array (id, x, depth)
    lCalls,            \* build3DLayout: the calls of traverse still to be made
    lPosition,         \* traverse: finalPosition (x, depth) of the node in hand
    attempts,          \* traverse: attempts
    lPhase,            \* traverse: where the call in hand stands
    lExit,             \* traverse: how the collision loop was left
    lBudget,           \* nodes of the input tree not yet seen
    wideSpread,        \* layout variant: angle step of Math.PI * 15, size-scaled radius
    siblingCount,      \* traverse: totalSiblings of the group being placed
    parentPos,         \* traverse: parentPos (x, y) of the group being placed
    placed,            \* `position` (x, y) of the siblings placed so far, in order
    rRoot,             \* fixed-radius build3DLayout: its argument
    rNodes,            \* fixed-radius build3DLayout: the `nodes` array
    rStack,            \* fixed-radius build3DLayout: the calls of traverse under way
    rCall,             \* fixed-radius build3DLayout: the node traverse is called on next
    nds,               \* 2D collision pass: position.x of the nodes it is given
    updatedNodes,      \* 2D collision pass: position.x of updatedNodes
    passI, passJ,      \* 2D collision pass: the loop indices i and j (from 1)
    passPhase,         \* 2D collision pass: "off", "loop" or "done"
    examined,          \* 2D collision pass: the pairs examined so far and the distance found
    layoutRoot,        \* the tree handed to a layout engine
    layoutEngine,      \* the layout engine that was run on it, "none" before
    layoutOut,         \* the nodes and edges the engine returned
    earlier            \* the event before the last one and the index it left (kept for the provider alone)

vars == <<data, syncGated, focusedNodeLabel, focusSource, traversal, currentIndex,
          focusId, animTarget, animLog, lastEvent, before, run, tRoot, tBfs, tDfs, tPhase,
          tBfsNodes, tDfsNodes, camPos, camTarget, anims,
          lNodes, lCalls, lPosition, attempts, lPhase, lExit, lBudget,
          wideSpread, siblingCount, parentPos, placed, rRoot, rNodes, rStack, rCall,
          nds, updatedNodes, passI, passJ, passPhase, examined,
          layoutRoot, layoutEngine, layoutOut, earlier>>

tvars == <<tRoot, tBfs, tDfs, tPhase, tBfsNodes, tDfsNodes>>

cvars == <<camPos, camTarget, anims>>

lvars == <<lNodes, lCalls, lPosition, attempts, lPhase, lExit, lBudget>>

svars == <<wideSpread, siblingCount, parentPos, placed>>

\* no sibling group is being placed
SiblingsIdle ==
    wideSpread = FALSE /\ siblingCount = 0 /\ parentPos = <<0, 0>> /\ placed = <<>>

rvars == <<rRoot, rNodes, rStack, rCall>>

\* the fixed-radius 3D layout is not being built
RingIdle ==
    rRoot = [n |-> 1, parent |-> <<0>>, label |-> <<RootLabel>>] /\ rNodes = <<>> /\ rStack = <<>> /\ rCall = 0

pvars == <<nds, updatedNodes, passI, passJ, passPhase, examined>>

\* no collision pass is being made
PassIdle ==
    /\ nds = <<>> /\ updatedNodes = <<>> /\ passI = 0 /\ passJ = 0
    /\ passPhase = "off" /\ examined = <<>>

ovars == <<layoutRoot, layoutEngine, layoutOut>>

\* no layout engine is being compared
OutputIdle ==
    /\ layoutRoot = [n |-> 1, parent |-> <<0>>, label |-> <<1>>, weight |-> <<-1>>]
    /\ layoutEngine = "off" /\ layoutOut = [nodes |-> <<>>, edges |-> <<>>]

gvars == <<earlier>>

\* the 3D layout is not being built
LayoutIdle ==
    /\ lNodes = <<>> /\ lCalls = <<>> /\ lPosition = [x |-> 0, depth |-> 0]
    /\ attempts = 0 /\ lPhase = "off" /\ lExit = "none" /\ lBudget = 0

nodes == LayoutOf[data]
flowNodes == FlowOf[data]

Event(op, node) == [op |-> op, node |-> node]

\* ------------------------------------------------------------- rendering
\* highlights only the first node carrying the focused label
isFocused2DFirstOnly(id) ==
    /\ focusedNodeLabel = idToLabel(flowNodes, id)
    /\ \A j \in NodeIds(flowNodes) : j < id => idToLabel(flowNodes, j) # idToLabel(flowNodes, id)

\* KnowledgeNodeComponent: isFocused = focusedNodeLabel === data.label
isFocused2D(id) == focusedNodeLabel = idToLabel(flowNodes, id)

\* NodeMesh isFocused={n.id === focusId}
isFocused3D(id) == id = focusId

\* ------------------------------------------------- 3D scene side effects
\* Body of the focus-sync effect; returns the focusId it leaves behind.
\* falls back to the root node when no node carries the label
FocusSyncEffectFallback(gated, label, source, fid) ==
    LET matchingId == labelToIdGet(nodes, label)
    IN  IF gated
        THEN IF label # Null /\ source = "graph2d"
             THEN (IF matchingId # NoId THEN matchingId ELSE 0)
             ELSE IF label = Null THEN NoId ELSE fid
        ELSE IF label # Null
             THEN (IF matchingId # NoId THEN matchingId ELSE 0)
             ELSE NoId

FocusSyncEffect(gated, label, source, fid) ==
    LET matchingId == labelToIdGet(nodes, label)
    IN  IF gated
        THEN IF label # Null /\ source = "graph2d"
             THEN (IF matchingId # NoId THEN matchingId ELSE fid)
             ELSE IF label = Null THEN NoId ELSE fid
        ELSE IF label # Null
             THEN (IF matchingId # NoId THEN matchingId ELSE fid)
             ELSE NoId

\* The effect re-runs only when one of its dependencies changed
\* ([focusedNodeLabel, labelToId, focusSource] resp. [focusedNodeLabel, labelToId]).
SyncDepsChanged(gated, label, source) ==
    \/ label # focusedNodeLabel
    \/ gated /\ source # focusSource

\* Camera animation effect (deps [focusId, nodes, camera]): starts animate()
\* for the node when the new focusId is non-null and names a laid-out node.
\* flies back to the root node when the focus is cleared
AnimStartedBackToRoot(oldId, newId) ==
    IF newId # oldId THEN (IF newId = NoId THEN <<0>> ELSE <<newId>>) ELSE <<>>

AnimStarted(oldId, newId) ==
    IF newId # oldId /\ newId # NoId /\ newId \in NodeIds(nodes) THEN <<newId>> ELSE <<>>

\* One event: the handler's batched updates (label, source, fid), the
\* render that follows, the effects of that render, and the second render
\* caused by a setFocusId inside the focus-sync effect.
Commit(label, source, fid) ==
    LET fid2 == IF SyncDepsChanged(syncGated, label, source)
                THEN FocusSyncEffect(syncGated, label, source, fid)
                ELSE fid
        started == AnimStarted(focusId, fid) \o AnimStarted(fid, fid2)
    IN  /\ focusedNodeLabel' = label
        /\ focusSource' = source
        /\ focusId' = fid2
        /\ animLog' = started
        /\ animTarget' = IF started = <<>> THEN animTarget ELSE started[Len(started)]

\* ------------------------------------------------------------ operations
IdleTree == [n |-> 1, parent |-> <<0>>, label |-> <<RootLabel>>]

Init ==
    /\ data \in Trees
    /\ syncGated \in BOOLEAN
    /\ focusedNodeLabel = Null
    /\ focusSource = Null
    /\ traversal = <<>>
    /\ currentIndex = -1
    /\ focusId = NoId
    /\ animTarget = NoId
    /\ animLog = <<>>
    /\ lastEvent = Event("mount", -1)
    /\ before = <<Null, Null>>
    /\ run = -1
    /\ earlier = [op |-> "none", index |-> -1]
    /\ tRoot = IdleTree /\ tBfs = <<>> /\ tDfs = <<>> /\ tPhase = "off"
    /\ tBfsNodes = <<>> /\ tDfsNodes = <<>>
    /\ camPos = 0 /\ camTarget = 0 /\ anims = <<>>
    /\ LayoutIdle
    /\ SiblingsIdle
    /\ RingIdle
    /\ PassIdle
    /\ OutputIdle

\* sets the order and leaves the index where it was
initializeBfsTraversalKeepIndex(root) ==
    /\ traversal' = BfsOf[root]
    /\ UNCHANGED currentIndex
    /\ Commit(focusedNodeLabel, focusSource, focusId)
    /\ lastEvent' = Event("initBfs", -1)
    /\ before' = <<Null, Null>>
    /\ run' = 0
    /\ UNCHANGED <<data, syncGated>>

initializeBfsTraversal(root) ==
    /\ traversal' = BfsOf[root]
    /\ currentIndex' = -1
    /\ Commit(focusedNodeLabel, focusSource, focusId)
    /\ lastEvent' = Event("initBfs", -1)
    /\ before' = <<Null, Null>>
    /\ run' = 0
    /\ UNCHANGED <<data, syncGated>>

\* sets the depth-first order and leaves the index where it was
initializeDfsTraversalKeepIndex(root) ==
    /\ traversal' = DfsOf[root]
    /\ UNCHANGED currentIndex
    /\ Commit(focusedNodeLabel, focusSource, focusId)
    /\ lastEvent' = Event("initDfs", -1)
    /\ before' = <<Null, Null>>
    /\ run' = 0
    /\ UNCHANGED <<data, syncGated>>

initializeDfsTraversal(root) ==
    /\ traversal' = DfsOf[root]
    /\ currentIndex' = -1
    /\ Commit(focusedNodeLabel, focusSource, focusId)
    /\ lastEvent' = Event("initDfs", -1)
    /\ before' = <<Null, Null>>
    /\ run' = 0
    /\ UNCHANGED <<data, syncGated>>

\* stops at the last element instead of wrapping
NextIndexClamped(i, n) == IF i + 1 >= n THEN n - 1 ELSE i + 1

\* treats "nothing selected" (-1) as position 0
NextIndexSkipsFirst(i, n) == ((IF i < 0 THEN 0 ELSE i) + 1) % n

NextIndexOf(i, n) == (i + 1) % n

\* tags the focus 'graph3d' before looking at the order
focusNextNodeUnguarded ==
    /\ IF Len(traversal) = 0
       THEN /\ Commit(focusedNodeLabel, "graph3d", focusId)
            /\ UNCHANGED currentIndex
       ELSE LET nextIndex == NextIndexOf(currentIndex, Len(traversal))
                nextNodeLabel == traversal[nextIndex + 1]
            IN  /\ currentIndex' = nextIndex
                /\ Commit(nextNodeLabel, "graph3d", focusId)
    /\ lastEvent' = Event("next", -1)
    /\ before' = <<Null, Null>>
    /\ run' = IF run >= 0 /\ run <= MaxRun THEN run + 1 ELSE -1
    /\ UNCHANGED <<data, syncGated, traversal>>

focusNextNode ==
    /\ IF Len(traversal) = 0
       THEN /\ Commit(focusedNodeLabel, focusSource, focusId)
            /\ UNCHANGED currentIndex
       ELSE LET nextIndex == NextIndexOf(currentIndex, Len(traversal))
                nextNodeLabel == traversal[nextIndex + 1]
            IN  /\ currentIndex' = nextIndex
                /\ Commit(nextNodeLabel, "graph3d", focusId)
    /\ lastEvent' = Event("next", -1)
    /\ before' = <<Null, Null>>
    /\ run' = IF run >= 0 /\ run <= MaxRun THEN run + 1 ELSE -1
    /\ UNCHANGED <<data, syncGated, traversal>>

\* stops at the first element instead of wrapping
PrevIndexNoWrap(i, n) == IF i <= 0 THEN 0 ELSE i - 1

\* treats "nothing selected" (-1) as standing after the first element
PrevIndexFirstFromNone(i, n) == IF i < 0 THEN 0 ELSE IF i = 0 THEN n - 1 ELSE i - 1

PrevIndexOf(i, n) == IF i <= 0 THEN n - 1 ELSE i - 1

focusPreviousNode ==
    /\ IF Len(traversal) = 0
       THEN /\ Commit(focusedNodeLabel, focusSource, focusId)
            /\ UNCHANGED currentIndex
       ELSE LET prevIndex == PrevIndexOf(currentIndex, Len(traversal))
                prevNodeLabel == traversal[prevIndex + 1]
            IN  /\ currentIndex' = prevIndex
                /\ Commit(prevNodeLabel, "graph3d", focusId)
    /\ lastEvent' = Event("prev", -1)
    /\ before' = <<Null, Null>>
    /\ run' = -1
    /\ UNCHANGED <<data, syncGated, traversal>>

\* KnowledgeNodeComponent.handleNodeClick: the updates it makes to
\* <<focusedNodeLabel, focusSource>> for a node labelled `label`.
\* clears the label only
Toggle2DKeepSource(cur, label) ==
    IF cur = label THEN <<Null, "graph2d">> ELSE <<label, "graph2d">>

Toggle2D(cur, label) ==
    IF cur = label THEN <<Null, Null>> ELSE <<label, "graph2d">>

\* a click that also forgets the position in the order
handleNodeClick2DResetsIndex(id) ==
    LET upd == Toggle2D(focusedNodeLabel, idToLabel(flowNodes, id))
    IN  /\ Commit(upd[1], upd[2], focusId)
        /\ lastEvent' = Event("click2d", id)
        /\ before' = <<focusedNodeLabel, focusSource>>
        /\ run' = -1
        /\ currentIndex' = -1
        /\ UNCHANGED <<data, syncGated, traversal>>

handleNodeClick2D(id) ==
    LET upd == Toggle2D(focusedNodeLabel, idToLabel(flowNodes, id))
    IN  /\ Commit(upd[1], upd[2], focusId)
        /\ lastEvent' = Event("click2d", id)
        /\ before' = <<focusedNodeLabel, focusSource>>
        /\ run' = -1
        /\ UNCHANGED <<data, syncGated, traversal, currentIndex>>

\* GraphSceneWithDrawer.handleNodeClick(id): the updates it makes to
\* <<focusedNodeLabel, focusSource, focusId>>.
\* clears the label and the local id only
Toggle3DKeepSource(fid, id, label) ==
    IF fid = id THEN <<Null, "graph3d", NoId>> ELSE <<label, "graph3d", id>>

Toggle3D(fid, id, label) ==
    IF fid = id THEN <<Null, Null, NoId>> ELSE <<label, "graph3d", id>>

handleNodeClick3D(id) ==
    LET upd == Toggle3D(focusId, id, idToLabel(nodes, id))
    IN  /\ Commit(upd[1], upd[2], upd[3])
        /\ lastEvent' = Event("click3d", id)
        /\ before' = <<focusedNodeLabel, focusSource>>
        /\ run' = -1
        /\ UNCHANGED <<data, syncGated, traversal, currentIndex>>

Next ==
    \/ initializeBfsTraversal(data) /\ UNCHANGED <<tvars, cvars, lvars, svars, rvars, pvars, ovars, gvars>>
    \/ initializeDfsTraversal(data) /\ UNCHANGED <<tvars, cvars, lvars, svars, rvars, pvars, ovars, gvars>>
    \/ \E root \in BfsRoots : initializeBfsTraversal(root) /\ UNCHANGED <<tvars, cvars, lvars, svars, rvars, pvars, ovars, gvars>>
    \/ \E root \in DfsRoots : initializeDfsTraversal(root) /\ UNCHANGED <<tvars, cvars, lvars, svars, rvars, pvars, ovars, gvars>>
    \/ focusNextNode /\ UNCHANGED <<tvars, cvars, lvars, svars, rvars, pvars, ovars, gvars>>
    \/ focusPreviousNode /\ UNCHANGED <<tvars, cvars, lvars, svars, rvars, pvars, ovars, gvars>>
    \/ \E id \in NodeIds(flowNodes) : handleNodeClick2D(id) /\ UNCHANGED <<tvars, cvars, lvars, svars, rvars, pvars, ovars, gvars>>
    \/ \E id \in NodeIds(nodes) : handleNodeClick3D(id) /\ UNCHANGED <<tvars, cvars, lvars, svars, rvars, pvars, ovars, gvars>>

Spec == Init /\ [][Next]_vars

\* --------------------------------------------------- the provider alone
\* The same events, each remembering the event before it and the index it found.
\* The provider sees a tree only through its traversal order, so the views'
\* tree is taken as a chain: every sequence of labels that starts with
\* RootLabel is the order of one.
ProviderTrees == {t \in Trees : \A i \in 2..t.n : t.parent[i] = i - 1}

InitProvider == Init /\ data \in ProviderTrees

Remember ==
    /\ earlier' = [op |-> lastEvent.op, index |-> currentIndex]
    /\ UNCHANGED <<tvars, cvars, lvars, svars, rvars, pvars, ovars>>

NextProvider ==
    \/ initializeBfsTraversal(data) /\ Remember
    \/ initializeDfsTraversal(data) /\ Remember
    \/ \E root \in BfsRoots : initializeBfsTraversal(root) /\ Remember
    \/ \E root \in DfsRoots : initializeDfsTraversal(root) /\ Remember
    \/ focusNextNode /\ Remember
    \/ focusPreviousNode /\ Remember
    \/ \E id \in NodeIds(flowNodes) : handleNodeClick2D(id) /\ Remember
    \/ \E id \in NodeIds(nodes) : handleNodeClick3D(id) /\ Remember

SpecProvider == InitProvider /\ [][NextProvider]_vars

\* ----------------------------------- traversal engine on a single input
\* The two pure traversal functions applied to one bounded input tree.
InitEngine ==
    /\ tRoot \in EngineTrees
    /\ tBfs = <<>> /\ tDfs = <<>> /\ tPhase = "input"
    /\ tBfsNodes = <<>> /\ tDfsNodes = <<>>
    /\ camPos = 0 /\ camTarget = 0 /\ anims = <<>>
    /\ LayoutIdle
    /\ SiblingsIdle
    /\ RingIdle
    /\ PassIdle
    /\ OutputIdle
    /\ data = IdleTree
    /\ syncGated = FALSE
    /\ focusedNodeLabel = Null
    /\ focusSource = Null
    /\ traversal = <<>>
    /\ currentIndex = -1
    /\ focusId = NoId
    /\ animTarget = NoId
    /\ animLog = <<>>
    /\ lastEvent = Event("mount", -1)
    /\ before = <<Null, Null>>
    /\ run = -1
    /\ earlier = [op |-> "none", index |-> -1]

fvars == <<data, syncGated, focusedNodeLabel, focusSource, traversal, currentIndex,
           focusId, animTarget, animLog, lastEvent, before, run>>

RunBfs ==
    /\ tPhase = "input"
    /\ tBfs' = createBfsTraversal(tRoot)
    /\ tBfsNodes' = createBfsTraversal(ByIdentity(tRoot))
    /\ tPhase' = "bfs"
    /\ UNCHANGED <<tRoot, tDfs, tDfsNodes>>
    /\ UNCHANGED <<fvars, cvars, lvars, svars, rvars, pvars, ovars, gvars>>

RunDfs ==
    /\ tPhase = "bfs"
    /\ tDfs' = createDfsTraversal(tRoot)
    /\ tDfsNodes' = createDfsTraversal(ByIdentity(tRoot))
    /\ tPhase' = "done"
    /\ UNCHANGED <<tRoot, tBfs, tBfsNodes>>
    /\ UNCHANGED <<fvars, cvars, lvars, svars, rvars, pvars, ovars, gvars>>

NextEngine == RunBfs \/ RunDfs

SpecEngine == InitEngine /\ [][NextEngine]_vars

\* ------------------------------------------------------ camera animation
\* The scene is taken along the z axis: the nodes of a single-child chain
\* sit at depth * layerDistance (their x/y offsets left out), the camera on
\* the axis.  OrbitControls.update() is taken to leave camera.position and
\* controls.target as written (no user input, no damping).
layerDistance == 15
targetDistance == 6
duration == 1000
cameraZ == -15

\* Coordinates are integers in units of 1/Unit, which keeps every eased
\* interpolation of up to MaxAnimations chained animations exact.
EaseDen == TicksPerAnimation * TicksPerAnimation * TicksPerAnimation
Unit == EaseDen ^ MaxAnimations
TickMs == duration \div TicksPerAnimation

\* the single-child chain of MaxNodes nodes
ChainTrees == {t \in Trees : t.n = MaxNodes /\ \A i \in 2..t.n : t.parent[i] = i - 1 /\ t.label[i] = "X"}

\* position[2] of the laid-out node `id`
positionZ(id) == Depth(data, LayoutVisit(data, <<1>>)[id + 1]) * layerDistance * Unit

Sign(v) == IF v > 0 THEN 1 ELSE IF v < 0 THEN -1 ELSE 0

\* progress = Math.min(1, elapsed / duration), in ticks out of TicksPerAnimation
Progress(elapsed) ==
    LET ticks == elapsed \div TickMs
    IN  IF ticks >= TicksPerAnimation THEN TicksPerAnimation ELSE ticks

\* cubic ease in/out of progress e / TicksPerAnimation, as a multiple of 1/EaseDen
Ease(e) ==
    IF 2 * e < TicksPerAnimation
    THEN 4 * e * e * e
    ELSE EaseDen - 4 * (TicksPerAnimation - e) * (TicksPerAnimation - e) * (TicksPerAnimation - e)

\* start + (end - start) * ease
Lerp(start, end, e) == start + ((end - start) \div EaseDen) * Ease(e)

\* What the effect captures before it calls animate(): start values from
\* the camera as it is, the target at targetDistance from the node towards
\* the camera, and the start time.  Of the clock only Date.now() - startTime
\* is ever used: each loop carries it as `elapsed`.
StartAnimation(id, pos, target) ==
    LET nodePos == positionZ(id)
    IN  [node |-> id, nodePos |-> nodePos,
         startPos |-> pos, startTarget |-> target,
         targetPos |-> nodePos + Sign(pos - nodePos) * targetDistance * Unit,
         elapsed |-> 0, live |-> TRUE]

\* One call of animate(): the values it writes and whether it asks for
\* another frame.
animate(a) ==
    LET progress == Progress(a.elapsed)
    IN  [position |-> Lerp(a.startPos, a.targetPos, progress),
         target |-> Lerp(a.startTarget, a.nodePos, progress),
         again |-> progress < TicksPerAnimation]

\* runs the callback registered last first
CallbackOrderNewestFirst(n) == [k \in 1..n |-> n + 1 - k]

\* requestAnimationFrame runs the callbacks in the order they were registered
CallbackOrder(n) == [k \in 1..n |-> k]

\* One animation frame: every loop still registered calls animate().
RECURSIVE RunCallbacks(_, _, _)
RunCallbacks(order, as, cam) ==
    IF order = <<>> THEN [anims |-> as, position |-> cam.position, target |-> cam.target]
    ELSE LET k == Head(order)
         IN  IF ~as[k].live THEN RunCallbacks(Tail(order), as, cam)
             ELSE LET w == animate(as[k])
                  IN  RunCallbacks(Tail(order), [as EXCEPT ![k].live = w.again],
                                   [position |-> w.position, target |-> w.target])

\* `ms` milliseconds pass: Date.now() - startTime grows for every loop that
\* will still read it
TimePasses(as, ms) ==
    [k \in 1..Len(as) |-> IF as[k].live THEN [as[k] EXCEPT !.elapsed = @ + ms] ELSE as[k]]

InitCamera ==
    /\ data \in ChainTrees
    /\ syncGated = FALSE
    /\ focusedNodeLabel = Null
    /\ focusSource = Null
    /\ traversal = <<>>
    /\ currentIndex = -1
    /\ focusId = NoId
    /\ animTarget = NoId
    /\ animLog = <<>>
    /\ lastEvent = Event("mount", -1)
    /\ before = <<Null, Null>>
    /\ run = -1
    /\ earlier = [op |-> "none", index |-> -1]
    /\ tRoot = IdleTree /\ tBfs = <<>> /\ tDfs = <<>> /\ tPhase = "off"
    /\ tBfsNodes = <<>> /\ tDfsNodes = <<>>
    /\ camPos = cameraZ * Unit
    /\ camTarget = positionZ(0)
    /\ anims = <<>>
    /\ LayoutIdle
    /\ SiblingsIdle
    /\ RingIdle
    /\ PassIdle
    /\ OutputIdle

\* setFocusId(id) with a new value, `delay` ticks after the last frame, and
\* the render and animation effect that follow.
SetFocusId(id, delay) ==
    LET started == AnimStarted(focusId, id)
    IN  /\ id # focusId
        /\ focusId' = id
        /\ animLog' = started
        /\ animTarget' = IF started = <<>> THEN animTarget ELSE started[Len(started)]
        /\ IF started = <<>>
           THEN /\ delay = 0
                /\ UNCHANGED <<camPos, camTarget, anims>>
           ELSE LET a == StartAnimation(started[1], camPos, camTarget)
                    w == animate(a)
                IN  /\ Len(anims) < MaxAnimations
                    /\ anims' = Append(TimePasses(anims, delay * TickMs), [a EXCEPT !.live = w.again])
                    /\ camPos' = w.position
                    /\ camTarget' = w.target
        /\ lastEvent' = Event("setFocusId", id)
        /\ UNCHANGED <<data, syncGated, focusedNodeLabel, focusSource, traversal,
                       currentIndex, before, run>>

\* The browser runs an animation frame `dt` ticks after the last event.
Frame(dt) ==
    LET r == RunCallbacks(CallbackOrder(Len(anims)), TimePasses(anims, dt * TickMs),
                          [position |-> camPos, target |-> camTarget])
    IN  /\ \E k \in 1..Len(anims) : anims[k].live
        /\ anims' = r.anims
        /\ camPos' = r.position
        /\ camTarget' = r.target
        /\ lastEvent' = Event("frame", -1)
        /\ UNCHANGED <<data, syncGated, focusedNodeLabel, focusSource, traversal,
                       currentIndex, focusId, animTarget, animLog, before, run>>

NextCamera ==
    \/ \E id \in NodeIds(nodes) \cup {NoId}, delay \in 0..1 :
           SetFocusId(id, delay) /\ UNCHANGED <<tvars, lvars, svars, rvars, pvars, ovars, gvars>>
    \/ \E dt \in 0..2 : Frame(dt) /\ UNCHANGED <<tvars, lvars, svars, rvars, pvars, ovars, gvars>>

SpecCamera == InitCamera /\ [][NextCamera]_vars

\* ------------------------------------------------------- 3D positions
\* build3DLayout on trees whose nodes have at most two children.  A single
\* child sits at its parent's x plus a random offset, two children at the
\* angles 0 and pi of the circle around the parent, so every node lies on
\* the x axis of its layer (y is left out; sin(pi) counts as 0).  The tree
\* is read as the recursion meets it: n.children.length is an input of the
\* step that pushes the node.
minNodeDistance == 4
baseRadius == 6
maxAttempts == 20

\* calculateOptimalRadius, in grid units (2 * pi taken as 710 / 113)
calculateOptimalRadius(nodeCount, minDistance) ==
    IF nodeCount <= 1 THEN 0
    ELSE LET circumference == nodeCount * minDistance * 2
             fit == (circumference * GridPerUnit * 113) \div 710
         IN  IF fit > baseRadius * GridPerUnit THEN fit ELSE baseRadius * GridPerUnit

\* Math.cos((siblingIndex / totalSiblings) * Math.PI * 2) for two siblings
CosAngle(siblingIndex, totalSiblings) == IF siblingIndex = 0 THEN 1 ELSE -1

\* (Math.random() - 0.5) * 0.5 lies in [-0.25, 0.25)
RandomOffsets == {-1, 0}

\* x of `position` for the call c of traverse
InitialX(c, offset) ==
    IF c.depth = 0 THEN 0
    ELSE IF c.totalSiblings = 1 THEN c.parentX + offset
    ELSE c.parentX + CosAngle(c.siblingIndex, c.totalSiblings)
                        * calculateOptimalRadius(c.totalSiblings, minNodeDistance)

\* dx*dx + dy*dy + dz*dz, in grid units squared
Dist2(p, q) ==
    LET dx == p.x - q.x
        dz == (p.depth - q.depth) * layerDistance * GridPerUnit
    IN  dx * dx + dz * dz

\* distance < minNodeDistance
Collides(p, q) == Dist2(p, q) < (minNodeDistance * GridPerUnit) * (minNodeDistance * GridPerUnit)

\* Math.sqrt of the squared distance of two colliding nodes (which lie in
\* the same layer, layers being layerDistance > minNodeDistance apart)
Distance(p, q) == CHOOSE d \in 0..(minNodeDistance * GridPerUnit) : d * d = Dist2(p, q)

\* compares with the node pushed last only
FirstCollisionLastOnly(pos, ns) ==
    IF ns # <<>> /\ Collides(pos, ns[Len(ns)]) THEN Len(ns) ELSE 0

\* the first node of `nodes` the position collides with, 0 if none
FirstCollision(pos, ns) ==
    LET hits == {k \in 1..Len(ns) : Collides(pos, ns[k])}
    IN  IF hits = {} THEN 0 ELSE CHOOSE k \in hits : \A j \in hits : k <= j

\* finalPosition moved by moveDistance along atan2(dy, dx): with dy = 0
\* the angle is 0 for dx >= 0 and pi for dx < 0
MoveAway(pos, q) ==
    LET moveDistance == minNodeDistance * GridPerUnit - Distance(pos, q) + GridPerUnit
    IN  [pos EXCEPT !.x = IF pos.x - q.x >= 0 THEN pos.x + moveDistance
                                                ELSE pos.x - moveDistance]

InitLayout ==
    /\ lNodes = <<>>
    /\ lCalls = <<[parentX |-> 0, depth |-> 0, siblingIndex |-> 0, totalSiblings |-> 1]>>
    /\ lPosition = [x |-> 0, depth |-> 0]
    /\ attempts = 0 /\ lPhase = "call" /\ lExit = "none"
    /\ lBudget \in 0..(MaxLayoutNodes - 1)
    /\ data = IdleTree
    /\ syncGated = FALSE
    /\ focusedNodeLabel = Null
    /\ focusSource = Null
    /\ traversal = <<>>
    /\ currentIndex = -1
    /\ focusId = NoId
    /\ animTarget = NoId
    /\ animLog = <<>>
    /\ lastEvent = Event("mount", -1)
    /\ before = <<Null, Null>>
    /\ run = -1
    /\ earlier = [op |-> "none", index |-> -1]
    /\ tRoot = IdleTree /\ tBfs = <<>> /\ tDfs = <<>> /\ tPhase = "off"
    /\ tBfsNodes = <<>> /\ tDfsNodes = <<>>
    /\ camPos = 0 /\ camTarget = 0 /\ anims = <<>>
    /\ SiblingsIdle
    /\ RingIdle
    /\ PassIdle
    /\ OutputIdle

\* traverse(...) is entered: position is computed, attempts = 0
TraverseEnter(offset) ==
    /\ lPhase = "call"
    /\ lPosition' = [x |-> InitialX(Head(lCalls), offset), depth |-> Head(lCalls).depth]
    /\ lCalls' = Tail(lCalls)
    /\ attempts' = 0
    /\ lExit' = "none"
    /\ lPhase' = "loop"
    /\ UNCHANGED <<lNodes, lBudget>>

\* one pass of `while (attempts < maxAttempts)`
CollisionAttempt ==
    /\ lPhase = "loop"
    /\ attempts < maxAttempts
    /\ LET k == FirstCollision(lPosition, lNodes)
       IN  IF k # 0
           THEN /\ lPosition' = MoveAway(lPosition, lNodes[k])
                /\ attempts' = attempts + 1
                /\ UNCHANGED <<lPhase, lExit>>
           ELSE /\ lPhase' = "push"
                /\ lExit' = "clear"
                /\ UNCHANGED <<lPosition, attempts>>
    /\ UNCHANGED <<lNodes, lCalls, lBudget>>

\* the loop condition fails: attempts = maxAttempts
AttemptsExhausted ==
    /\ lPhase = "loop"
    /\ ~(attempts < maxAttempts)
    /\ lPhase' = "push"
    /\ lExit' = "cap"
    /\ UNCHANGED <<lNodes, lCalls, lPosition, attempts, lBudget>>

\* nodes.push(...) and the calls for the node's childCount children
PushNode(childCount) ==
    /\ lPhase = "push"
    /\ childCount <= lBudget
    /\ lNodes' = Append(lNodes, [id |-> Len(lNodes), x |-> lPosition.x, depth |-> lPosition.depth])
    /\ lCalls' = [i \in 1..childCount |->
                      [parentX |-> lPosition.x, depth |-> lPosition.depth + 1,
                       siblingIndex |-> i - 1, totalSiblings |-> childCount]] \o lCalls
    /\ lBudget' = lBudget - childCount
    /\ lPhase' = IF lCalls' = <<>> THEN "done" ELSE "call"
    /\ UNCHANGED <<lPosition, attempts, lExit>>

NextLayout ==
    \/ \E offset \in RandomOffsets : TraverseEnter(offset) /\ UNCHANGED <<fvars, tvars, cvars, svars, rvars, pvars, ovars, gvars>>
    \/ CollisionAttempt /\ UNCHANGED <<fvars, tvars, cvars, svars, rvars, pvars, ovars, gvars>>
    \/ AttemptsExhausted /\ UNCHANGED <<fvars, tvars, cvars, svars, rvars, pvars, ovars, gvars>>
    \/ \E childCount \in 0..2 : PushNode(childCount) /\ UNCHANGED <<fvars, tvars, cvars, svars, rvars, pvars, ovars, gvars>>

SpecLayout == InitLayout /\ [][NextLayout]_vars

\* the scheduler is the call stack: a step that can be taken is taken
SpecLayoutFair == SpecLayout /\ WF_vars(NextLayout)

\* -------------------------------------------------------- sibling groups
\* The initial `position` that traverse computes for the members of one
\* sibling group (totalSiblings >= 2), before the collision loop: in
\* Graph3D.tsx and in the variant with the angle step Math.PI * 15 and the
\* radius scaled by the node sizes.  Lengths are integers in units of
\* 1/Fine.
Fine == GridPerUnit ^ 4

minNodeDistanceWide == 2
baseRadiusWide == 3

\* node.weight: absent, the smallest and the largest weight
NoWeight == -1
Weights == {NoWeight, 1, 100}
KidWeights == {<<>>} \cup {<<w>> : w \in Weights}
ParentPositions == {<<0, 0>>, <<3 * Fine, -2 * Fine>>}

Max(a, b) == IF a >= b THEN a ELSE b
Min(a, b) == IF a <= b THEN a ELSE b

RECURSIVE SumSeq(_)
SumSeq(s) == IF s = <<>> THEN 0 ELSE Head(s) + SumSeq(Tail(s))

\* normalizeWeight(w), in units of 1/Fine
normalizeWeight(w) ==
    IF w = NoWeight THEN Fine \div 2
    ELSE ((Max(1, Min(100, w)) - 1) * Fine) \div 99

\* Math.cos(pi * h / d) as a fraction num/den.  The angle is reduced to
\* [0, pi] exactly (cos is even and 2 pi periodic); on [0, pi/2] the value
\* is (pi^2 - 4 x^2) / (pi^2 + x^2), which is exact at 0, pi/3 and pi/2 and
\* within 0.002 of the cosine elsewhere, and cos(pi - x) = -cos(x).
CosPi(h, d) ==
    LET m == h % (2 * d)
        r == IF m > d THEN 2 * d - m ELSE m
        c == d - r
    IN  IF 2 * r <= d
        THEN [num |-> d * d - 4 * r * r, den |-> d * d + r * r]
        ELSE [num |-> -(d * d - 4 * c * c), den |-> d * d + c * c]

\* Math.sin(pi * h / d) = cos(pi * h / d - pi / 2)
SinPi(h, d) == CosPi(2 * h - d, 2 * d)

\* f * length for a fraction f
Times(f, length) == (f.num * length) \div f.den

\* calculateOptimalRadius of Graph3D.tsx (2 * pi taken as 710 / 113)
calculateOptimalRadiusFine(nodeCount, minDistance) ==
    IF nodeCount <= 1 THEN 0
    ELSE LET circumference == nodeCount * minDistance * 2 * Fine
         IN  Max(baseRadius * Fine, (circumference * 113) \div 710)

\* calculateOptimalRadius of the variant; averageNodeSize in units of 1/Fine
calculateOptimalRadiusScaled(nodeCount, minDistance, averageNodeSize) ==
    IF nodeCount <= 1 THEN 0
    ELSE LET sizeScale == Fine \div 2 + (averageNodeSize * 8) \div 10
             circumference == nodeCount * minDistance * 2 * sizeScale
         IN  Max(baseRadiusWide * sizeScale, (circumference * 113) \div 710)

\* radius of traverse for a node of weight `weight` whose children have the
\* weights kidWeights
RadiusOf(wide, n, weight, kidWeights) ==
    IF ~wide THEN calculateOptimalRadiusFine(n, minNodeDistance)
    ELSE LET parentWeight == normalizeWeight(weight)
             siblingWeights == [k \in 1..Len(kidWeights) |-> normalizeWeight(kidWeights[k])]
             averageSize == (parentWeight + SumSeq(siblingWeights)) \div (Len(siblingWeights) + 1)
             averageNodeSize == (2 * averageSize * parentWeight * parentWeight) \div (10 * Fine * Fine)
         IN  calculateOptimalRadiusScaled(n, minNodeDistanceWide, averageNodeSize)

\* angle = (siblingIndex / totalSiblings) * Math.PI * 2 (resp. * 15), as the
\* numerator of a multiple of pi / totalSiblings
AngleSteps(wide, siblingIndex) == IF wide THEN 15 * siblingIndex ELSE 2 * siblingIndex

\* <<x, y>> of `position` for sibling siblingIndex of n
SiblingPosition(wide, parent, siblingIndex, n, weight, kidWeights) ==
    LET radius == RadiusOf(wide, n, weight, kidWeights)
        h == AngleSteps(wide, siblingIndex)
    IN  <<parent[1] + Times(CosPi(h, n), radius), parent[2] + Times(SinPi(h, n), radius)>>

InitSiblings ==
    /\ wideSpread \in BOOLEAN
    /\ siblingCount \in 2..MaxSiblings
    /\ parentPos \in ParentPositions
    /\ placed = <<>>
    /\ LayoutIdle
    /\ RingIdle
    /\ PassIdle
    /\ OutputIdle
    /\ data = IdleTree
    /\ syncGated = FALSE
    /\ focusedNodeLabel = Null
    /\ focusSource = Null
    /\ traversal = <<>>
    /\ currentIndex = -1
    /\ focusId = NoId
    /\ animTarget = NoId
    /\ animLog = <<>>
    /\ lastEvent = Event("mount", -1)
    /\ before = <<Null, Null>>
    /\ run = -1
    /\ earlier = [op |-> "none", index |-> -1]
    /\ tRoot = IdleTree /\ tBfs = <<>> /\ tDfs = <<>> /\ tPhase = "off"
    /\ tBfsNodes = <<>> /\ tDfsNodes = <<>>
    /\ camPos = 0 /\ camTarget = 0 /\ anims = <<>>

\* traverse(children[i], depth + 1, id, finalPosition, i, childCount) up
\* to `const position = [x, y, z]`, for the next child
PlaceSibling(weight, kidWeights) ==
    /\ Len(placed) < siblingCount
    /\ placed' = Append(placed, SiblingPosition(wideSpread, parentPos, Len(placed),
                                                siblingCount, weight, kidWeights))
    /\ UNCHANGED <<wideSpread, siblingCount, parentPos>>

NextSiblings ==
    \E weight \in Weights, kidWeights \in KidWeights :
        PlaceSibling(weight, kidWeights) /\ UNCHANGED <<fvars, tvars, cvars, lvars, rvars, pvars, ovars, gvars>>

SpecSiblings == InitSiblings /\ [][NextSiblings]_vars

\* ---------------------------------------------------- fixed-radius layout
\* build3DLayout of KnowledgeTree.tsx: traverse pushes its node at
\* [0, 0, z], calls itself for each child and, when the call has returned,
\* overwrites the child's position.  One step per call and per return;
\* x and y in units of 1/Fine, z in layers.
layerZ == 8
radial == 5

RingTrees == UNION {TreesOfSize(n, {RootLabel}) : n \in 1..MaxRingNodes}

\* [cx, cy] for child i of count
RingPosition(i, count) ==
    LET radius == radial * Fine
    IN  <<Times(CosPi(2 * i, count), radius), (Times(SinPi(2 * i, count), radius) * 7) \div 10>>

InitRing ==
    /\ rRoot \in RingTrees
    /\ rNodes = <<>>
    /\ rStack = <<>>
    /\ rCall = 1
    /\ LayoutIdle
    /\ SiblingsIdle
    /\ PassIdle
    /\ OutputIdle
    /\ data = IdleTree
    /\ syncGated = FALSE
    /\ focusedNodeLabel = Null
    /\ focusSource = Null
    /\ traversal = <<>>
    /\ currentIndex = -1
    /\ focusId = NoId
    /\ animTarget = NoId
    /\ animLog = <<>>
    /\ lastEvent = Event("mount", -1)
    /\ before = <<Null, Null>>
    /\ run = -1
    /\ earlier = [op |-> "none", index |-> -1]
    /\ tRoot = IdleTree /\ tBfs = <<>> /\ tDfs = <<>> /\ tPhase = "off"
    /\ tBfsNodes = <<>> /\ tDfsNodes = <<>>
    /\ camPos = 0 /\ camTarget = 0 /\ anims = <<>>

\* traverse(n, depth, parentId) is entered: the node is pushed on the axis
\* and the loop over its children starts
TraverseRing ==
    /\ rCall # 0
    /\ LET depth == Len(rStack)
           id == Len(rNodes)
           children == Children(rRoot, rCall)
       IN  /\ rNodes' = Append(rNodes, [id |-> id, node |-> rCall, x |-> 0, y |-> 0, z |-> depth * layerZ])
           /\ rStack' = Append(rStack, [id |-> id, children |-> children, i |-> 0])
           /\ rCall' = IF children = <<>> THEN 0 ELSE children[1]
    /\ UNCHANGED rRoot

\* a call of traverse returns its id: in the caller the child found under
\* that id gets its position, and the loop goes on
ReturnRing ==
    /\ rCall = 0
    /\ rStack # <<>>
    /\ LET childId == rStack[Len(rStack)].id
           rest == SubSeq(rStack, 1, Len(rStack) - 1)
       IN  IF rest = <<>>
           THEN /\ rStack' = rest
                /\ UNCHANGED <<rNodes, rCall>>
           ELSE LET frame == rest[Len(rest)]
                    count == Len(frame.children)
                    depth == Len(rest) - 1
                    c == RingPosition(frame.i, count)
                    k == CHOOSE j \in 1..Len(rNodes) : rNodes[j].id = childId
                IN  /\ rNodes' = [rNodes EXCEPT ![k].x = c[1], ![k].y = c[2],
                                                ![k].z = (depth + 1) * layerZ]
                    /\ rStack' = [rest EXCEPT ![Len(rest)].i = frame.i + 1]
                    /\ rCall' = IF frame.i + 1 < count THEN frame.children[frame.i + 2] ELSE 0
    /\ UNCHANGED rRoot

NextRing ==
    \/ TraverseRing /\ UNCHANGED <<fvars, tvars, cvars, lvars, svars, pvars, ovars, gvars>>
    \/ ReturnRing /\ UNCHANGED <<fvars, tvars, cvars, lvars, svars, pvars, ovars, gvars>>

SpecRing == InitRing /\ [][NextRing]_vars

\* ------------------------------------------------------ 2D collision pass
\* handleNodesChange after a drag has ended: the updater passed to
\* setNodes, one step per pass of the inner loop.  The nodes are taken on
\* one horizontal line (equal position.y, so dy = 0 and the push is along
\* x); position.x is an integer in units of 1/PassUnit, which keeps every
\* halving of a deficit exact.
minDistance == 100

PassUnit == 2 ^ ((MaxPassNodes * (MaxPassNodes - 1)) \div 2)

\* position.x of a node before the pass, in pixels
PassPositions == {-140, 0, 10, 60, 150}

Abs(v) == IF v < 0 THEN -v ELSE v

\* pushes each node by the whole deficit
pushDistanceWhole(distance) == minDistance * PassUnit - distance

\* (minDistance - distance) / 2
pushDistance(distance) == (minDistance * PassUnit - distance) \div 2

\* Math.cos(Math.atan2(0, dx)) * pushDistance
pushX(dx, distance) == IF dx >= 0 THEN pushDistance(distance) ELSE -pushDistance(distance)

\* updatedNodes after the body of the inner loop for the pair (i, j)
ResolvePair(ns, i, j) ==
    LET dx == ns[j] - ns[i]
        distance == Abs(dx)
    IN  IF distance < minDistance * PassUnit /\ distance > 0
        THEN [ns EXCEPT ![i] = ns[i] - pushX(dx, distance), ![j] = ns[j] + pushX(dx, distance)]
        ELSE ns

InitPass ==
    /\ \E n \in 1..MaxPassNodes : nds \in [1..n -> {x * PassUnit : x \in PassPositions}]
    /\ updatedNodes = nds
    /\ passI = 1 /\ passJ = 2
    /\ passPhase = IF Len(nds) >= 2 THEN "loop" ELSE "done"
    /\ examined = <<>>
    /\ OutputIdle
    /\ LayoutIdle
    /\ SiblingsIdle
    /\ RingIdle
    /\ data = IdleTree
    /\ syncGated = FALSE
    /\ focusedNodeLabel = Null
    /\ focusSource = Null
    /\ traversal = <<>>
    /\ currentIndex = -1
    /\ focusId = NoId
    /\ animTarget = NoId
    /\ animLog = <<>>
    /\ lastEvent = Event("mount", -1)
    /\ before = <<Null, Null>>
    /\ run = -1
    /\ earlier = [op |-> "none", index |-> -1]
    /\ tRoot = IdleTree /\ tBfs = <<>> /\ tDfs = <<>> /\ tPhase = "off"
    /\ tBfsNodes = <<>> /\ tDfsNodes = <<>>
    /\ camPos = 0 /\ camTarget = 0 /\ anims = <<>>

\* one pass of `for (let j = i + 1; ...)`, and the loop headers that follow
ExaminePair ==
    /\ passPhase = "loop"
    /\ updatedNodes' = ResolvePair(updatedNodes, passI, passJ)
    /\ examined' = Append(examined, [i |-> passI, j |-> passJ,
                                     distance |-> Abs(updatedNodes[passJ] - updatedNodes[passI])])
    /\ IF passJ < Len(updatedNodes)
       THEN passJ' = passJ + 1 /\ UNCHANGED <<passI, passPhase>>
       ELSE IF passI + 1 < Len(updatedNodes)
            THEN passI' = passI + 1 /\ passJ' = passI + 2 /\ UNCHANGED passPhase
            ELSE passPhase' = "done" /\ UNCHANGED <<passI, passJ>>
    /\ UNCHANGED nds

NextPass == ExaminePair /\ UNCHANGED <<fvars, tvars, cvars, lvars, svars, rvars, ovars, gvars>>

SpecPass == InitPass /\ [][NextPass]_vars

\* ------------------------------------------- nodes and edges of the layouts
\* What the three layout engines return for one tree, positions left out:
\* convertTreeToReactFlow (ids `node-<k>`), layoutTree (its nodes are objects
\* without an id: the k-th object created is named k) and build3DLayout of
\* Graph3D.tsx (ids `n3-<k>`).  The nodes of the input carry their own
\* index as label, and a weight.
EdgeWeights == {NoWeight, 2, 7}

OutputTrees ==
    UNION {{[n |-> n, parent |-> q, label |-> [i \in 1..n |-> i], weight |-> w] :
               q \in ParentVectors(n), w \in [1..n -> EdgeWeights]} : n \in 1..MaxOutputNodes}

\* node.weight || 1
WeightOr1(w) == IF w = NoWeight \/ w = 0 THEN 1 ELSE w

\* map.set(key, value)
MapSet(map, key, value) == [k \in DOMAIN map \cup {key} |-> IF k = key THEN value ELSE map[k]]

\* nodeWeightMap.get(id) || 1
WeightMapGet(map, id) == IF id \in DOMAIN map THEN WeightOr1(map[id]) ELSE 1

\* `if (parentId)` with numeric ids: the id 0 counts as no parent
HasParentNumeric(parentId) == parentId > 0

\* `if (parentId)`: the id of a node is a non-empty string, the root's
\* parentId is undefined
HasParent(parentId) == parentId # NoId

\* convertTreeToReactFlow.processNode with its edges and its weight map
RECURSIVE processNodeWithEdges(_, _, _, _)
RECURSIVE processChildrenWithEdges(_, _, _, _)
processChildrenWithEdges(t, kids, parentId, acc) ==
    IF kids = <<>> THEN acc
    ELSE processChildrenWithEdges(t, Tail(kids), parentId,
                                  processNodeWithEdges(t, Head(kids), parentId, acc))

processNodeWithEdges(t, i, parentId, acc) ==
    LET currentNodeId == acc.nodeId
        sub == processChildrenWithEdges(t, Children(t, i), currentNodeId,
                                        [acc EXCEPT !.nodeId = @ + 1])
        nodeWeightMap == MapSet(sub.nodeWeightMap, currentNodeId, WeightOr1(t.weight[i]))
        parentWeight == WeightMapGet(nodeWeightMap, parentId)
    IN  [nodeId |-> sub.nodeId,
         nodeWeightMap |-> nodeWeightMap,
         nodes |-> Append(sub.nodes, [id |-> currentNodeId, label |-> t.label[i],
                                      weight |-> t.weight[i]]),
         edges |-> IF HasParent(parentId)
                   THEN Append(sub.edges, [source |-> parentId, target |-> currentNodeId,
                                           sourceWeight |-> parentWeight,
                                           targetWeight |-> WeightOr1(t.weight[i])])
                   ELSE sub.edges]

convertTreeToReactFlowWithEdges(t) ==
    LET r == processNodeWithEdges(t, 1, NoId,
                 [nodeId |-> 0, nodeWeightMap |-> <<>>, nodes |-> <<>>, edges |-> <<>>])
    IN  [nodes |-> r.nodes, edges |-> r.edges]

\* TaperedEdge: twice the strokeWidth it draws
StrokeWidth2(edge) ==
    LET sourceStrokeWidth == Max(3, Min(15, edge.sourceWeight * 2))
        targetStrokeWidth == Max(3, Min(15, edge.targetWeight * 2))
    IN  Max(2 * 8, sourceStrokeWidth + targetStrokeWidth)

\* layoutTree.placeWithEdges; `positioned` is the object it returns
RECURSIVE placeWithEdges(_, _, _)
RECURSIVE placeChildrenWithEdges(_, _, _)
placeChildrenWithEdges(t, kids, acc) ==
    IF kids = <<>> THEN acc
    ELSE LET r == placeWithEdges(t, Head(kids), acc)
         IN  placeChildrenWithEdges(t, Tail(kids),
                 [r EXCEPT !.positionedChildren = Append(acc.positionedChildren, r.positioned)])

placeWithEdges(t, i, acc) ==
    LET sub == placeChildrenWithEdges(t, Children(t, i), [acc EXCEPT !.positionedChildren = <<>>])
        positioned == Len(sub.nodes)
    IN  [nodes |-> Append(sub.nodes, [id |-> positioned, label |-> t.label[i], weight |-> t.weight[i]]),
         edges |-> sub.edges \o [k \in 1..Len(sub.positionedChildren) |->
                                    [source |-> positioned, target |-> sub.positionedChildren[k]]],
         positionedChildren |-> acc.positionedChildren,
         positioned |-> positioned]

layoutTree(t) ==
    LET r == placeWithEdges(t, 1, [nodes |-> <<>>, edges |-> <<>>, positionedChildren |-> <<>>,
                                   positioned |-> NoId])
    IN  [nodes |-> r.nodes, edges |-> r.edges]

\* build3DLayout.traverse of Graph3D.tsx: its id, its node, its edge, its children
RECURSIVE traverse(_, _, _, _)
RECURSIVE traverseChildren(_, _, _, _)
traverseChildren(t, kids, parentId, acc) ==
    IF kids = <<>> THEN acc
    ELSE traverseChildren(t, Tail(kids), parentId, traverse(t, Head(kids), parentId, acc))

traverse(t, i, parentId, acc) ==
    LET id == acc.idCounter
    IN  traverseChildren(t, Children(t, i), id,
            [idCounter |-> acc.idCounter + 1,
             nodes |-> Append(acc.nodes, [id |-> id, label |-> t.label[i], weight |-> t.weight[i]]),
             edges |-> IF HasParent(parentId)
                       THEN Append(acc.edges, [source |-> parentId, target |-> id])
                       ELSE acc.edges])

build3DLayoutWithEdges(t) ==
    LET r == traverse(t, 1, NoId, [idCounter |-> 0, nodes |-> <<>>, edges |-> <<>>])
    IN  [nodes |-> r.nodes, edges |-> r.edges]

InitOutput ==
    /\ layoutRoot \in OutputTrees
    /\ layoutEngine = "none"
    /\ layoutOut = [nodes |-> <<>>, edges |-> <<>>]
    /\ LayoutIdle
    /\ SiblingsIdle
    /\ RingIdle
    /\ PassIdle
    /\ data = IdleTree
    /\ syncGated = FALSE
    /\ focusedNodeLabel = Null
    /\ focusSource = Null
    /\ traversal = <<>>
    /\ currentIndex = -1
    /\ focusId = NoId
    /\ animTarget = NoId
    /\ animLog = <<>>
    /\ lastEvent = Event("mount", -1)
    /\ before = <<Null, Null>>
    /\ run = -1
    /\ earlier = [op |-> "none", index |-> -1]
    /\ tRoot = IdleTree /\ tBfs = <<>> /\ tDfs = <<>> /\ tPhase = "off"
    /\ tBfsNodes = <<>> /\ tDfsNodes = <<>>
    /\ camPos = 0 /\ camTarget = 0 /\ anims = <<>>

RunConvertTreeToReactFlow ==
    /\ layoutEngine = "none"
    /\ layoutOut' = convertTreeToReactFlowWithEdges(layoutRoot)
    /\ layoutEngine' = "convertTreeToReactFlow"
    /\ UNCHANGED layoutRoot

RunLayoutTree ==
    /\ layoutEngine = "none"
    /\ layoutOut' = layoutTree(layoutRoot)
    /\ layoutEngine' = "layoutTree"
    /\ UNCHANGED layoutRoot

RunBuild3DLayout ==
    /\ layoutEngine = "none"
    /\ layoutOut' = build3DLayoutWithEdges(layoutRoot)
    /\ layoutEngine' = "build3DLayout"
    /\ UNCHANGED layoutRoot

NextOutput ==
    \/ RunConvertTreeToReactFlow /\ UNCHANGED <<fvars, tvars, cvars, lvars, svars, rvars, pvars, gvars>>
    \/ RunLayoutTree /\ UNCHANGED <<fvars, tvars, cvars, lvars, svars, rvars, pvars, gvars>>
    \/ RunBuild3DLayout /\ UNCHANGED <<fvars, tvars, cvars, lvars, svars, rvars, pvars, gvars>>

SpecOutput == InitOutput /\ [][NextOutput]_vars

\* ------------------------------------------------------ NavigationButton
\* What the controller renders from bfsTraversal and currentBfsIndex.
\* disabled until a node has been selected
isDisabledUntilSelected == currentIndex < 0

isDisabled == Len(traversal) = 0

\* previews the node that is selected now
nextIndexCurrent == IF currentIndex < 0 THEN 0 ELSE currentIndex

\* (currentBfsIndex + 1) % bfsTraversal.length; read only under !isDisabled
nextIndex == (currentIndex + 1) % Len(traversal)

nextNode == traversal[nextIndex + 1]

\* disabled={isDisabled} on every button
ButtonsDisabled == isDisabled

\* {!isDisabled && <div> {currentBfsIndex + 1}/{bfsTraversal.length} {nextNode} </div>}
ReadoutShown == ~isDisabled

Readout == [position |-> currentIndex + 1, total |-> Len(traversal), preview |-> nextNode]

\* ------------------------------------------------------------ properties
TypeOK ==
    /\ focusedNodeLabel \in Labels \cup {Null}
    /\ focusSource \in {"graph2d", "graph3d", Null}
    /\ currentIndex \in -1..(Len(traversal) - 1)
    /\ focusId \in {NoId} \cup NodeIds(nodes)

Stepped(op) == lastEvent'.op = op

\* C1: on a non-empty order focusNextNode moves the index to (i+1) mod n,
\* focuses order[(i+1) mod n] and tags the focus 'graph3d'; on a one-element
\* order the first and the second call after initialisation both end at
\* index 0 with that element focused.
C1_StepForward ==
    /\ [][(Stepped("next") /\ Len(traversal) > 0) =>
            /\ currentIndex' = (currentIndex + 1) % Len(traversal)
            /\ focusedNodeLabel' = traversal[((currentIndex + 1) % Len(traversal)) + 1]
            /\ focusSource' = "graph3d"
            /\ traversal' = traversal]_vars
    /\ []((Len(traversal) = 1 /\ run \in {1, 2}) =>
            (currentIndex = 0 /\ focusedNodeLabel = traversal[1]))

C1_Witness ==
    /\ lastEvent.op = "next" /\ run = 2
    /\ Len(traversal) = 1 /\ currentIndex = 0
    /\ focusedNodeLabel = traversal[1] /\ focusSource = "graph3d"

\* C2 (as stated): after exactly Len(traversal) consecutive focusNextNode
\* calls from index -1 the index is 0 again.
C2_AsStated ==
    (Len(traversal) > 0 /\ run = Len(traversal)) => currentIndex = 0

\* C2 (amended): k >= 1 consecutive focusNextNode calls after initialisation
\* leave the index at (k-1) mod n: n calls reach the last index n-1 and it
\* is the (n+1)-th call that brings the index back to 0.
C2_Wrap ==
    (Len(traversal) > 0 /\ run >= 1) =>
        /\ currentIndex = (run - 1) % Len(traversal)
        /\ (run = Len(traversal) => currentIndex = Len(traversal) - 1)
        /\ (run = Len(traversal) + 1 => currentIndex = 0)

C2_Witness ==
    /\ Len(traversal) >= 2 /\ run = Len(traversal) + 1
    /\ lastEvent.op = "next" /\ currentIndex = 0

\* C3: on a non-empty order focusPreviousNode moves from index i >= 1 to
\* i-1 and from index 0 to n-1, focuses order[new index] and tags the
\* focus 'graph3d'.
C3_StepBackward ==
    [][(Stepped("prev") /\ Len(traversal) > 0 /\ currentIndex >= 0) =>
          /\ currentIndex >= 1 => currentIndex' = currentIndex - 1
          /\ currentIndex = 0 => currentIndex' = Len(traversal) - 1
          /\ focusedNodeLabel' = traversal[currentIndex' + 1]
          /\ focusSource' = "graph3d"]_vars

C3_Witness ==
    /\ lastEvent.op = "prev" /\ Len(traversal) >= 2
    /\ currentIndex = 0 /\ focusedNodeLabel = traversal[1] /\ focusSource = "graph3d"

\* C4: with an empty traversal order focusNextNode and focusPreviousNode
\* change none of focusedNodeLabel, focusSource, traversal, currentIndex.
C4_EmptyNoOp ==
    [][((Stepped("next") \/ Stepped("prev")) /\ Len(traversal) = 0) =>
          UNCHANGED <<focusedNodeLabel, focusSource, traversal, currentIndex>>]_vars

C4_Witness ==
    /\ lastEvent.op \in {"next", "prev"} /\ traversal = <<>>
    /\ focusedNodeLabel = Null /\ focusSource = Null /\ currentIndex = -1

\* What toggleFocus(label, source) makes of the shared focus.
ToggleFocusResult(label, source) ==
    IF focusedNodeLabel = label THEN <<Null, Null>> ELSE <<label, source>>

\* C5: a click on a node labelled L, in either view, acts as
\* toggleFocus(L, view) on the shared focus.
C5_ClickIsToggle ==
    [][/\ Stepped("click2d") =>
            <<focusedNodeLabel', focusSource'>> =
                ToggleFocusResult(idToLabel(flowNodes, lastEvent'.node), "graph2d")
       /\ Stepped("click3d") =>
            <<focusedNodeLabel', focusSource'>> =
                ToggleFocusResult(idToLabel(nodes, lastEvent'.node), "graph3d")]_vars

\* A second click in a row on the same node of the same view.
SecondClick(op) == Stepped(op) /\ lastEvent.op = op /\ lastEvent'.node = lastEvent.node

\* C6 (as stated), for the 2D handler, which is toggleFocus(L, 'graph2d'):
\* two clicks in a row on the same node restore the focus that was there
\* before the first of them, whatever it was.
C6_AsStated ==
    [][SecondClick("click2d") => <<focusedNodeLabel', focusSource'>> = before]_vars

\* C6 (amended): two 2D clicks in a row on a node labelled L restore the
\* focus exactly when it was none or (L, 'graph2d') before the first click;
\* from another label they end cleared, from (L, 'graph3d') at (L, 'graph2d').
\* Two 3D clicks in a row on the same node from a cleared focus end cleared
\* when the scene is source-gated or the node is the one labelToId gives
\* for its label.
C6_DoubleToggle ==
    [][/\ SecondClick("click2d") =>
            LET L == idToLabel(flowNodes, lastEvent.node)
            IN  /\ before \in {<<Null, Null>>, <<L, "graph2d">>} =>
                      <<focusedNodeLabel', focusSource'>> = before
                /\ before[1] \notin {Null, L} =>
                      <<focusedNodeLabel', focusSource'>> = <<Null, Null>>
                /\ before = <<L, "graph3d">> =>
                      <<focusedNodeLabel', focusSource'>> = <<L, "graph2d">>
       /\ SecondClick("click3d") =>
            LET id == lastEvent.node
            IN  (/\ before = <<Null, Null>>
                 /\ syncGated \/ labelToIdGet(nodes, idToLabel(nodes, id)) = id) =>
                      <<focusedNodeLabel', focusSource'>> = <<Null, Null>>]_vars

C6_Witness ==
    /\ lastEvent.op = "click2d"
    /\ before = <<idToLabel(flowNodes, lastEvent.node), "graph2d">>
    /\ focusedNodeLabel = Null /\ focusSource = Null

\* C7: between events focusedNodeLabel is null exactly when focusSource is.
C7_LabelSourceTogether ==
    (focusedNodeLabel = Null) <=> (focusSource = Null)

C7_Witness ==
    /\ lastEvent.op = "click2d" /\ before[1] # Null
    /\ focusedNodeLabel = Null /\ focusSource = Null

\* C8: after a navigation step on the order of the laid-out tree (effects
\* included) the 3D view's focused node carries the label order[new index]
\* and the latest camera animation started is the one towards that node.
C8_StepDrives3D ==
    (/\ lastEvent.op \in {"next", "prev"}
     /\ traversal \in {BfsOf[data], DfsOf[data]}) =>
        /\ focusId # NoId
        /\ idToLabel(nodes, focusId) = traversal[currentIndex + 1]
        /\ animTarget = focusId

\* Tree nodes carrying the focused label, and the nodes each view shows
\* as focused.
FocusedTreeNodes == {k \in 1..data.n : data.label[k] = focusedNodeLabel}
DuplicateFocused == Cardinality(FocusedTreeNodes) >= 2
Shown2D == {id \in NodeIds(flowNodes) : isFocused2D(id)}
Shown3D == {id \in NodeIds(nodes) : isFocused3D(id)}

Occurrences(seq, l) == Cardinality({k \in 1..Len(seq) : seq[k] = l})

\* C10: the BFS and the DFS order of a tree both have as many entries as the
\* tree has nodes, and each label occurs in both as often as in the tree.
C10_TraversalComplete ==
    (tPhase = "done") =>
        /\ Len(tBfs) = tRoot.n
        /\ Len(tDfs) = tRoot.n
        /\ \A l \in EngineLabels :
              /\ Occurrences(tBfs, l) = Occurrences(tRoot.label, l)
              /\ Occurrences(tDfs, l) = Occurrences(tRoot.label, l)

C10_Witness ==
    /\ tPhase = "done" /\ tRoot.n >= 3
    /\ \E l \in EngineLabels : Occurrences(tBfs, l) >= 2
    /\ tBfs # tDfs

\* the BFS and the DFS orders of the trees the initialisers are given
BfsOrders == {BfsOf[t] : t \in Trees \cup OrderTrees}
DfsOrders == {DfsOf[t] : t \in Trees \cup OrderTrees}

C15_DisabledIffEmpty ==
    /\ (traversal = <<>>) => (ButtonsDisabled /\ ~ReadoutShown)
    /\ (traversal # <<>>) => (~ButtonsDisabled /\ ReadoutShown)

C15_Witness ==
    /\ traversal # <<>> /\ currentIndex = -1
    /\ ~ButtonsDisabled /\ ReadoutShown

\* C16: with a non-empty order the readout previews the label the next
\* focusNextNode focuses, order[(index+1) mod n], and shows the position
\* index+1 out of n.
C16_PreviewIsNext ==
    /\ [](traversal # <<>> =>
            /\ ReadoutShown
            /\ Readout.preview = traversal[((currentIndex + 1) % Len(traversal)) + 1]
            /\ Readout.position = currentIndex + 1
            /\ Readout.total = Len(traversal))
    /\ [][(Stepped("next") /\ traversal # <<>>) =>
            focusedNodeLabel' = Readout.preview]_vars

\* at the last position of an order with distinct ends the preview wraps
C16_Witness ==
    /\ Len(traversal) >= 2 /\ currentIndex = Len(traversal) - 1
    /\ traversal[1] # traversal[Len(traversal)]
    /\ Readout.preview = traversal[1]
    /\ Readout.position = Len(traversal)

\* The focused label is one that no node of the laid-out tree carries.
StaleFocus == focusedNodeLabel # Null /\ \A k \in 1..data.n : data.label[k] # focusedNodeLabel

\* C17: with a focused label that no node of the laid-out tree carries the
\* 2D view highlights no node, and the event that brought the label leaves
\* the 3D view's focusId as it was or cleared and starts no camera animation.
C17_StaleFocusNoMatch ==
    /\ [](StaleFocus => Shown2D = {})
    /\ [][StaleFocus' =>
            /\ focusId' \in {focusId, NoId}
            /\ animLog' = <<>>
            /\ animTarget' = animTarget]_vars

\* a navigation step to a stale label while the 3D view had a node focused
C17_Witness ==
    /\ StaleFocus /\ lastEvent.op \in {"next", "prev"}
    /\ focusedNodeLabel = traversal[currentIndex + 1]
    /\ focusId # NoId /\ idToLabel(nodes, focusId) # focusedNodeLabel
    /\ Shown2D = {} /\ animLog = <<>>

\* ---------------------------------------------------- camera properties
Newest == anims[Len(anims)]
SomeLive == \E k \in 1..Len(anims) : anims[k].live

\* C18: the event that clears the 3D focus starts no animation loop and
\* leaves camera.position and controls.target as they are.
C18_ClearStartsNoAnimation ==
    [][(focusId # NoId /\ focusId' = NoId) =>
            /\ animLog' = <<>>
            /\ anims' = anims
            /\ camPos' = camPos
            /\ camTarget' = camTarget]_vars

\* the focus was cleared while the flight to a node was under way
C18_Witness ==
    /\ lastEvent = Event("setFocusId", NoId) /\ focusId = NoId
    /\ anims # <<>> /\ Newest.live
    /\ camTarget # Newest.nodePos /\ camTarget # Newest.startTarget

\* C19: an animation started while an earlier one is running takes its
\* start values from the camera as it is then; in every frame in which it
\* runs the camera ends at its interpolation, and when no loop is left the
\* orbit target is the position of the node of the animation started last
\* and the camera is at that animation's target position.
C19_NewestAnimationWins ==
    /\ [][(Len(anims') = Len(anims) + 1) =>
            /\ anims'[Len(anims')].startPos = camPos
            /\ anims'[Len(anims')].startTarget = camTarget]_vars
    /\ [][(lastEvent'.op = "frame" /\ anims # <<>> /\ Newest.live) =>
            /\ camPos' = Lerp(Newest.startPos, Newest.targetPos,
                              Progress(anims'[Len(anims)].elapsed))
            /\ camTarget' = Lerp(Newest.startTarget, Newest.nodePos,
                                 Progress(anims'[Len(anims)].elapsed))]_vars
    /\ []((anims # <<>> /\ ~SomeLive) =>
            /\ camTarget = positionZ(Newest.node)
            /\ camPos = Newest.targetPos
            /\ \A k \in 1..Len(anims) :
                  anims[k].node # Newest.node => camTarget # positionZ(anims[k].node))

\* two flights, the second started in the middle of the first, both over
C19_Witness ==
    /\ Len(anims) >= 2 /\ ~SomeLive
    /\ anims[1].node # anims[2].node
    /\ anims[1].elapsed >= duration /\ anims[2].elapsed >= duration
    /\ anims[2].startTarget \notin {anims[1].startTarget, anims[1].nodePos}
    /\ anims[2].startPos \notin {anims[1].startPos, anims[1].targetPos}
    /\ camTarget = positionZ(anims[2].node)

\* ---------------------------------------------------- layout properties
PlacedNode == [id |-> Len(lNodes), x |-> lPosition.x, depth |-> lPosition.depth]

\* C20: the collision loop of a node makes at most maxAttempts (20)
\* displacements; left before the cap, the node is at least minNodeDistance
\* from every node placed before it; left at the cap, the node is placed
\* where it is; and build3DLayout ends, having placed every node.
C20_CollisionLoopBounded ==
    /\ [](attempts \in 0..maxAttempts)
    /\ [][(lPosition' # lPosition /\ lPhase = "loop") =>
            (attempts < maxAttempts /\ attempts' = attempts + 1)]_vars
    /\ []((lPhase = "push" /\ lExit = "clear") =>
            /\ attempts < maxAttempts
            /\ \A k \in 1..Len(lNodes) : ~Collides(lPosition, lNodes[k]))
    /\ []((lPhase = "push" /\ lExit = "cap") => attempts = maxAttempts)
    /\ [][(lPhase = "push" /\ lPhase' # "push") => lNodes' = Append(lNodes, PlacedNode)]_vars
    /\ <>(lPhase = "done" /\ lCalls = <<>>)

\* a node pushed after maxAttempts displacements, still overlapping another
C20_Witness ==
    /\ lPhase \in {"call", "done"} /\ lExit = "cap" /\ attempts = maxAttempts
    /\ lNodes[Len(lNodes)].x = lPosition.x
    /\ \E k \in 1..(Len(lNodes) - 1) : Collides(lNodes[Len(lNodes)], lNodes[k])

\* ------------------------------------------------- shape of the orders
RECURSIVE IsAncestorOrSelf(_, _, _)
IsAncestorOrSelf(t, a, i) ==
    IF i = a THEN TRUE ELSE IF i = 1 THEN FALSE ELSE IsAncestorOrSelf(t, a, t.parent[i])

Subtree(t, a) == {i \in 1..t.n : IsAncestorOrSelf(t, a, i)}

\* position (1-based) of node i in a sequence of nodes
PosIn(seq, i) == CHOOSE k \in 1..Len(seq) : seq[k] = i

\* seq lists every node of t exactly once, and labels is its label sequence
NodeOrderOf(t, seq, labels) ==
    /\ Len(seq) = t.n /\ Len(labels) = t.n
    /\ \A i \in 1..t.n : \E k \in 1..t.n : seq[k] = i
    /\ \A k \in 1..t.n : labels[k] = t.label[seq[k]]

\* C11: in the order produced by createBfsTraversal every node at depth d
\* comes before every node at depth d+1 (tBfs being the labels of the nodes
\* in the order they were visited).
C11_BfsLevelOrder ==
    (tPhase \in {"bfs", "done"}) =>
        /\ NodeOrderOf(tRoot, tBfsNodes, tBfs)
        /\ \A a, b \in 1..tRoot.n :
              Depth(tRoot, b) = Depth(tRoot, a) + 1 =>
                  PosIn(tBfsNodes, a) < PosIn(tBfsNodes, b)

\* a tree where pre-order and level order differ: a node of depth 2 whose
\* parent has a later sibling
C11_Witness ==
    /\ tPhase = "done" /\ tBfs # tDfs
    /\ \E a, b \in 1..tRoot.n :
          /\ Depth(tRoot, a) = 1 /\ Depth(tRoot, b) = 2 /\ b < a
          /\ PosIn(tBfsNodes, a) < PosIn(tBfsNodes, b)

\* C12: in the order produced by createDfsTraversal the subtree of every
\* node n occupies the contiguous block of positions that starts at n's own
\* position and is as long as the subtree has nodes.
C12_DfsSubtreeBlocks ==
    (tPhase = "done") =>
        /\ NodeOrderOf(tRoot, tDfsNodes, tDfs)
        /\ \A a \in 1..tRoot.n :
              {PosIn(tDfsNodes, i) : i \in Subtree(tRoot, a)} =
                  PosIn(tDfsNodes, a)..(PosIn(tDfsNodes, a) + Cardinality(Subtree(tRoot, a)) - 1)

\* an inner node with a subtree of its own that is followed by a sibling
C12_Witness ==
    /\ tPhase = "done"
    /\ \E a \in 2..tRoot.n :
          /\ Cardinality(Subtree(tRoot, a)) >= 2
          /\ PosIn(tDfsNodes, a) + Cardinality(Subtree(tRoot, a)) <= tRoot.n
          /\ tDfs[PosIn(tDfsNodes, a)] = tRoot.label[a]

\* The tree Root -> [A, B], A -> [A1]
SampleTree == [n |-> 4, parent |-> <<0, 1, 1, 2>>, label |-> <<"Root", "A", "B", "A1">>]

\* C13: siblings are visited left to right in both traversals; for the tree
\* Root -> [A, B], A -> [A1] the BFS order is [Root, A, B, A1] and the DFS
\* order is [Root, A, A1, B].
C13_SiblingsLeftToRight ==
    (tPhase = "done") =>
        /\ \A a, b \in 2..tRoot.n :
              (tRoot.parent[a] = tRoot.parent[b] /\ a < b) =>
                  /\ PosIn(tBfsNodes, a) < PosIn(tBfsNodes, b)
                  /\ PosIn(tDfsNodes, a) < PosIn(tDfsNodes, b)
        /\ tRoot = SampleTree =>
              /\ tBfs = <<"Root", "A", "B", "A1">>
              /\ tDfs = <<"Root", "A", "A1", "B">>

C13_Witness ==
    /\ tPhase = "done" /\ tRoot = SampleTree
    /\ tBfs = <<"Root", "A", "B", "A1">>
    /\ tDfs = <<"Root", "A", "A1", "B">>

\* ------------------------------------------------ sibling group properties
\* the minimum distance of the variant in hand, in units of 1/Fine
GroupMinDistance == (IF wideSpread THEN minNodeDistanceWide ELSE minNodeDistance) * Fine

\* squared distance of two positions of one layer
PlaneDist2(p, q) == (p[1] - q[1]) * (p[1] - q[1]) + (p[2] - q[2]) * (p[2] - q[2])

\* C21: the initial positions of any two distinct members of a sibling
\* group of two or more are at least minNodeDistance apart.
C21_SiblingsStartApart ==
    \A i, j \in 1..Len(placed) :
        i < j => PlaneDist2(placed[i], placed[j]) >= GroupMinDistance * GroupMinDistance

\* ------------------------------------------- fixed-radius layout properties
RingDone == rCall = 0 /\ rStack = <<>>

\* the laid-out node of tree node i
RingNode(i) == rNodes[CHOOSE k \in 1..Len(rNodes) : rNodes[k].node = i]

\* index of tree node i among its parent's children, from 0
SiblingIndex(t, i) == Cardinality({j \in 2..(i - 1) : t.parent[j] = t.parent[i]})

\* a point of the circle of radius `radial` around (cx, cy), within rounding
OnCircle(n, cx, cy) ==
    LET d2 == (n.x - cx) * (n.x - cx) + (n.y - cy) * (n.y - cy)
    IN  /\ d2 >= (radial * Fine - 2) * (radial * Fine - 2)
        /\ d2 <= (radial * Fine + 2) * (radial * Fine + 2)

\* C22: in the fixed-radius layout every node has z = depth * layerZ, every
\* child lies on the circle of radius `radial` around its parent's (x, y),
\* and children with the same sibling index in groups of the same size
\* whose parents differ in (x, y) are at different places.
C22_RingsAroundParent ==
    RingDone =>
        /\ \A i \in 1..rRoot.n : RingNode(i).z = Depth(rRoot, i) * layerZ
        /\ \A i \in 2..rRoot.n :
              OnCircle(RingNode(i), RingNode(rRoot.parent[i]).x, RingNode(rRoot.parent[i]).y)
        /\ \A i, j \in 2..rRoot.n :
              LET a == RingNode(rRoot.parent[i])
                  b == RingNode(rRoot.parent[j])
              IN  (/\ Depth(rRoot, i) = Depth(rRoot, j)
                   /\ SiblingIndex(rRoot, i) = SiblingIndex(rRoot, j)
                   /\ Len(Children(rRoot, rRoot.parent[i])) = Len(Children(rRoot, rRoot.parent[j]))
                   /\ <<a.x, a.y>> # <<b.x, b.y>>) =>
                      <<RingNode(i).x, RingNode(i).y>> # <<RingNode(j).x, RingNode(j).y>>

\* ---------------------------------------------- 2D collision pass properties
\* the pairs of nodes closer than the threshold
Violations(ns) ==
    {pr \in (1..Len(ns)) \X (1..Len(ns)) :
        pr[1] < pr[2] /\ Abs(ns[pr[2]] - ns[pr[1]]) < minDistance * PassUnit}

\* C23: when the pass is over, no more pairs of nodes are closer than the
\* threshold than before the pass.
C23_PassDoesNotAddViolations ==
    passPhase = "done" => Cardinality(Violations(updatedNodes)) <= Cardinality(Violations(nds))

Threshold == minDistance * PassUnit

\* the inner loop body has just run for the pair (passI, passJ)
Examined == passPhase = "loop" /\ Len(examined') = Len(examined) + 1

\* the pair (passI, passJ) is moved apart by half the deficit each: its
\* distance becomes the threshold, its midpoint stays, no other node moves
PushedApart ==
    LET a == updatedNodes[passI]
        b == updatedNodes[passJ]
        deficit == Threshold - Abs(b - a)
    IN  /\ Abs(updatedNodes'[passJ] - updatedNodes'[passI]) = Threshold
        /\ updatedNodes'[passI] + updatedNodes'[passJ] = a + b
        /\ 2 * Abs(updatedNodes'[passI] - a) = deficit
        /\ 2 * Abs(updatedNodes'[passJ] - b) = deficit
        /\ (a <= b) = (updatedNodes'[passI] <= updatedNodes'[passJ])
        /\ \A k \in 1..Len(updatedNodes) : k \notin {passI, passJ} => updatedNodes'[k] = updatedNodes[k]

\* every unordered pair of nodes has been examined exactly once
EachPairOnce ==
    \A a, b \in 1..Len(nds) :
        a < b => Cardinality({k \in 1..Len(examined) : examined[k].i = a /\ examined[k].j = b}) = 1

\* C24 (as stated): the pass examines each unordered pair exactly once, and
\* every pair closer than the threshold when examined, two nodes at the same
\* position included, is moved apart by half the deficit each.
C24_AsStated ==
    /\ [](passPhase = "done" => (EachPairOnce /\ 2 * Len(examined) = Len(nds) * (Len(nds) - 1)))
    /\ [][(Examined /\ Abs(updatedNodes[passJ] - updatedNodes[passI]) < Threshold) =>
             PushedApart]_vars

\* C24 (amended): the pass examines each unordered pair exactly once; every
\* pair whose distance is below the threshold and not zero when examined is
\* moved apart by half the deficit each, keeping its midpoint and ending at
\* the threshold; a pair at the same position, like a pair at or beyond the
\* threshold, is left where it is.
C24_PairsPushedApart ==
    /\ [](passPhase = "done" => (EachPairOnce /\ 2 * Len(examined) = Len(nds) * (Len(nds) - 1)))
    /\ [][Examined =>
             LET distance == Abs(updatedNodes[passJ] - updatedNodes[passI])
             IN  /\ (distance < Threshold /\ distance > 0) => PushedApart
                 /\ (distance = 0 \/ distance >= Threshold) => updatedNodes' = updatedNodes]_vars

\* a pass in which one pair was pushed apart, a pair moved by it was pushed
\* again, and a pair at the same position was left alone
C24_Witness ==
    /\ passPhase = "done" /\ Len(nds) >= 3
    /\ \E k \in 1..Len(examined) : examined[k].distance = 0
    /\ \E k, m \in 1..Len(examined) :
          /\ k < m
          /\ examined[k].distance > 0 /\ examined[k].distance < Threshold
          /\ examined[m].distance > 0 /\ examined[m].distance < Threshold
          /\ {examined[k].i, examined[k].j} \cap {examined[m].i, examined[m].j} # {}
          /\ Abs(nds[examined[m].j] - nds[examined[m].i]) # examined[m].distance
    /\ Abs(updatedNodes[Len(nds)] - updatedNodes[Len(nds) - 1]) >= Threshold

\* ------------------------------------------------ layout output properties
\* the tree node behind the laid-out node `id` (labels are the nodes' indices)
TreeNodeOf(out, id) == out.nodes[CHOOSE k \in 1..Len(out.nodes) : out.nodes[k].id = id].label

\* the weight an edge is to carry for a node: its weight, 1 when absent
EndpointWeight(t, i) == IF t.weight[i] = NoWeight THEN 1 ELSE t.weight[i]

\* C25: every edge of the 2D layout has sourceWeight = weight of the parent
\* node and targetWeight = weight of the child node (1 for an absent
\* weight), and the width drawn for it is the one these two weights give.
C25_EdgesCarryEndpointWeights ==
    layoutEngine = "convertTreeToReactFlow" =>
        \A k \in 1..Len(layoutOut.edges) :
            LET edge == layoutOut.edges[k]
                parent == TreeNodeOf(layoutOut, edge.source)
                child == TreeNodeOf(layoutOut, edge.target)
            IN  /\ edge.sourceWeight = EndpointWeight(layoutRoot, parent)
                /\ edge.targetWeight = EndpointWeight(layoutRoot, child)
                /\ StrokeWidth2(edge) =
                       StrokeWidth2([sourceWeight |-> EndpointWeight(layoutRoot, parent),
                                     targetWeight |-> EndpointWeight(layoutRoot, child)])

\* C26: each layout engine returns, for a tree of n nodes, n nodes with
\* pairwise distinct ids, one for every node of the tree, and n-1 edges,
\* exactly one for every child, directed from its parent to it; a root
\* without children gives one node and no edge.
C26_NodesAndEdges ==
    layoutEngine \in {"convertTreeToReactFlow", "layoutTree", "build3DLayout"} =>
        LET n == layoutRoot.n
            out == layoutOut
        IN  /\ Len(out.nodes) = n
            /\ \A a, b \in 1..Len(out.nodes) : a # b => out.nodes[a].id # out.nodes[b].id
            /\ {out.nodes[k].label : k \in 1..Len(out.nodes)} = 1..n
            /\ Len(out.edges) = n - 1
            /\ \A i \in 2..n :
                  Cardinality({k \in 1..Len(out.edges) :
                                  /\ TreeNodeOf(out, out.edges[k].source) = layoutRoot.parent[i]
                                  /\ TreeNodeOf(out, out.edges[k].target) = i}) = 1
            /\ n = 1 => (Len(out.nodes) = 1 /\ out.edges = <<>>)

\* the 3D layout of a tree with two children under the root and a grandchild
C26_Witness ==
    /\ layoutEngine = "build3DLayout"
    /\ layoutRoot.n >= 4
    /\ layoutRoot.parent[2] = 1 /\ layoutRoot.parent[3] = 2 /\ layoutRoot.parent[4] = 1
    /\ Len(layoutOut.nodes) = layoutRoot.n
    /\ \E k \in 1..Len(layoutOut.edges) :
          layoutOut.edges[k].source = 0 /\ TreeNodeOf(layoutOut, layoutOut.edges[k].target) = 4

\* ------------------------------------------------ shared and local focus
\* no two nodes of the laid-out tree carry the same label
DistinctLabels == \A a, b \in 1..data.n : a # b => data.label[a] # data.label[b]

\* C27: for a tree with pairwise distinct labels, whose own BFS or DFS order
\* (if any) is the one navigated, the 3D view's focusId is none exactly when
\* focusedNodeLabel is none, and otherwise names the node with that label.
C27_LocalFocusAgrees ==
    (DistinctLabels /\ traversal \in {<<>>, BfsOf[data], DfsOf[data]} /\ ~StaleFocus) =>
        /\ (focusId = NoId) <=> (focusedNodeLabel = Null)
        /\ focusId # NoId => idToLabel(nodes, focusId) = focusedNodeLabel

\* ------------------------------------------- clicks and the traversal
Clicks == {"click2d", "click3d"}

\* C28: a node click in either view leaves traversal and currentIndex as
\* they were (of the provider's state it changes focusedNodeLabel and
\* focusSource only), so the focusNextNode that follows a click focuses
\* order[(i+1) mod n], i being the index before the click, whichever node
\* was clicked.
C28_ClickKeepsPosition ==
    [][/\ (Stepped("click2d") \/ Stepped("click3d")) =>
              /\ traversal' = traversal
              /\ currentIndex' = currentIndex
       /\ (Stepped("next") /\ lastEvent.op \in Clicks /\ Len(traversal) > 0) =>
              /\ traversal' = traversal
              /\ currentIndex' = (earlier.index + 1) % Len(traversal)
              /\ focusedNodeLabel' = traversal[((earlier.index + 1) % Len(traversal)) + 1]]_vars

\* a step forward right after a click on a node other than the one the
\* traversal stood on
C28_Witness ==
    /\ lastEvent.op = "next" /\ earlier.op \in Clicks
    /\ Len(traversal) >= 2 /\ earlier.index >= 0
    /\ currentIndex = (earlier.index + 1) % Len(traversal)
    /\ focusedNodeLabel = traversal[currentIndex + 1]
    /\ focusedNodeLabel # traversal[earlier.index + 1]

\* C29: currentIndex is -1 or a position of the traversal order, and it is
\* -1 whenever the order is empty; this also holds right after the order
\* was replaced by a shorter one.
C29_IndexInRange ==
    /\ currentIndex = -1 \/ (0 <= currentIndex /\ currentIndex < Len(traversal))
    /\ traversal = <<>> => currentIndex = -1

\* a re-initialisation with an order too short for the index held before
C29_Witness ==
    /\ lastEvent.op \in {"initBfs", "initDfs"}
    /\ earlier.index >= Len(traversal) /\ Len(traversal) >= 1
    /\ currentIndex = -1

\* C30: on a non-empty order of length n with nothing selected (index -1)
\* focusPreviousNode selects the last element: the index becomes n-1 and
\* focusedNodeLabel becomes order[n-1].
C30_BackwardFromNone ==
    [][(Stepped("prev") /\ Len(traversal) > 0 /\ currentIndex = -1) =>
          /\ currentIndex' = Len(traversal) - 1
          /\ focusedNodeLabel' = traversal[Len(traversal)]
          /\ traversal' = traversal]_vars

C30_Witness ==
    /\ lastEvent.op = "prev" /\ earlier.index = -1
    /\ Len(traversal) >= 2
    /\ currentIndex = Len(traversal) - 1
    /\ focusedNodeLabel = traversal[Len(traversal)]

====
